---- MODULE Spec2Model ----
(***************************************************************************)
(* A model of the stable-fluids solver of src/fluid.js (class Fluid and    *)
(* getGridIndex) as driven by the sketch of src/unnamed/part_001.          *)
(*                                                                         *)
(* Numbers.  The buffers are Float32Arrays and every expression is         *)
(* evaluated in double precision before it is stored.  A stored value is   *)
(* modelled as an integer count of quanta (1/SCALE); an expression is      *)
(* evaluated exactly, as a fraction, and rounded once, to the nearest      *)
(* quantum, when it is stored.  Parameters (time step, rates, factors) are *)
(* exact fractions <<numerator, denominator>>.                             *)
(*                                                                         *)
(* Control.  step() runs to completion on a single thread; its statements  *)
(* are the stages of StepOrder, each one action, and no other action is    *)
(* enabled between them (pc # 0).                                          *)
(***************************************************************************)
EXTENDS Integers, Sequences, FiniteSets, TLC

\* ---------------------------------------------------------------- bounds
\* The resolution of the modelled grid (the sketch sets GRID_SIZE = 200).
MaxGridSize == 4
\* Quanta per unit: the precision kept by a stored value.
SCALE == 1024
\* Injection calls, step calls, and calls of both kinds explored in one run.
MaxInject == 2
MaxSteps == 2
MaxCalls == 3

\* ------------------------------------------------------ program constants
SOLVER_ITERATIONS == 4

\* timeStep = 0.2
TIME_STEP == <<1, 5>>
\* velocity friction 0.99, density fade 0.995 (applyDecay)
VELOCITY_DECAY == <<99, 100>>
\* Fault variant: a fade factor above 1 (1.005).
DENSITY_GROWTH == <<1005, 1000>>
DENSITY_DECAY == <<995, 1000>>
\* coolingRate = 0.99 set by the constructor, buoyancy = 0.0
DEFAULT_COOLING == <<99, 100>>
NO_BUOYANCY == <<0, 1>>

VARIABLES
    GRID_SIZE,      \* the global constant GRID_SIZE the solver is loaded with
    fluid,          \* the Fluid object: its parameters and its eight buffers
    pc,             \* position in step(): 0 = between frames, k = k stages done
    config,         \* the caller's parameters: the argument it gives to step()
    stageLog,       \* the stages the current (or last) step has run, in order
    lastCall,       \* the call that produced this state (for an injection, its arguments)
    before,         \* the Fluid object as it was when the current step began
    nInject,
    nSteps

vars == <<GRID_SIZE, fluid, pc, config, stageLog, lastCall, before, nInject, nSteps>>

\* A call without coordinates: "none" (nothing was called yet), "step", "setParameters".
Op(name) == [op |-> name, x |-> 0, y |-> 0, a |-> 0, b |-> 0, index |-> 0]
None == Op("none")
InjectionOps == {"addDensity", "addTemperature", "addVelocity"}

\* ------------------------------------------------------------- arithmetic
Abs(n) == IF n < 0 THEN -n ELSE n

\* Math.min / Math.max
Min(a, b) == IF a < b THEN a ELSE b
Max(a, b) == IF a > b THEN a ELSE b

\* p5's constrain(n, low, high) = Math.max(Math.min(n, high), low)
constrain(n, low, high) == Max(Min(n, high), low)

\* The store of the exact value num/den (den > 0) into a Float32Array cell:
\* the nearest representable value, ties to even.
Round(num, den) ==
    LET q == num \div den
        r == num % den
    IN  IF 2 * r < den THEN q
        ELSE IF 2 * r > den THEN q + 1
        ELSE IF q % 2 = 0 THEN q ELSE q + 1

\* The same store of the exact value (high * den + low) / (den * den), den > 0,
\* with no intermediate value beyond the range of the model's integers.
RoundScaled(high, low, den) ==
    LET whole == high + (low \div den)
        q == whole \div den
        r == (whole % den) * den + (low % den)
    IN  IF 2 * r < den * den THEN q
        ELSE IF 2 * r > den * den THEN q + 1
        ELSE IF q % 2 = 0 THEN q ELSE q + 1

\* ------------------------------------------------------------ grid indexer
\* Fault variant: the stride of the unpadded grid, x + GRID_SIZE * y.
getGridIndexUnpadded(x, y) ==
    LET cx == constrain(x, 0, GRID_SIZE + 1)
        cy == constrain(y, 0, GRID_SIZE + 1)
    IN  cx + GRID_SIZE * cy

getGridIndex(x, y) ==
    LET cx == constrain(x, 0, GRID_SIZE + 1)
        cy == constrain(y, 0, GRID_SIZE + 1)
    IN  cx + (GRID_SIZE + 2) * cy

\* The cells visited by `for y = 1; y < GRID_SIZE - 1` / `for x = 1; ...`,
\* in that (row-major) order.
LoopRange == 1 .. (GRID_SIZE - 2)

InteriorCells ==
    LET n == GRID_SIZE - 2
    IN  IF n <= 0 THEN << >>
        ELSE [k \in 1 .. (n * n) |-> <<1 + ((k - 1) % n), 1 + ((k - 1) \div n)>>]

\* The cell a buffer offset belongs to.
CellX(i) == i % (GRID_SIZE + 2)
CellY(i) == i \div (GRID_SIZE + 2)

\* The offset is getGridIndex(x, y) of a cell (x, y) the two loops visit.
IsInterior(i) == CellX(i) \in LoopRange /\ CellY(i) \in LoopRange

\* ------------------------------------------------------------- constructor
Buffers == {"previousDensity", "density", "previousTemperature", "temperature",
            "horizontalVelocity", "verticalVelocity",
            "previousHorizontalVelocity", "previousVerticalVelocity"}

FluidConstructor(ts, diffusionRate, visc) ==
    LET size == (GRID_SIZE + 2) * (GRID_SIZE + 2)
        zero == [i \in 0 .. (size - 1) |-> 0]
    IN  [timeStep |-> ts,
         diffusion |-> diffusionRate,
         viscosity |-> visc,
         buoyancy |-> NO_BUOYANCY,
         coolingRate |-> DEFAULT_COOLING,
         gridSize |-> size,
         previousDensity |-> zero,
         density |-> zero,
         previousTemperature |-> zero,
         temperature |-> zero,
         horizontalVelocity |-> zero,
         verticalVelocity |-> zero,
         previousHorizontalVelocity |-> zero,
         previousVerticalVelocity |-> zero]

\* ------------------------------------------------------- boundary enforcer
\* Fault variant: a velocity component is negated at the walls it runs along.
EdgeAlongWall(field, boundaryType, negateType, from) ==
    IF boundaryType = 3 - negateType THEN -field[from] ELSE field[from]

\* One statement `field[to] = sign * field[from]` of the edge loops.
Edge(field, boundaryType, negateType, from) ==
    IF boundaryType = negateType THEN -field[from] ELSE field[from]

\* One corner statement `field[c] = 0.5 * (field[a] + field[b])`.
Corner(field, c, a, b) == [field EXCEPT ![c] = Round(field[a] + field[b], 2)]

setBoundaryConditions(boundaryType, field) ==
    LET G == GRID_SIZE
        \* top and bottom edges
        topBottom ==
            [i \in DOMAIN field |->
                IF CellX(i) \in LoopRange /\ CellY(i) = 0
                THEN Edge(field, boundaryType, 2, getGridIndex(CellX(i), 1))
                ELSE IF CellX(i) \in LoopRange /\ CellY(i) = G - 1
                THEN Edge(field, boundaryType, 2, getGridIndex(CellX(i), G - 2))
                ELSE field[i]]
        \* left and right edges
        leftRight ==
            [i \in DOMAIN field |->
                IF CellY(i) \in LoopRange /\ CellX(i) = 0
                THEN Edge(topBottom, boundaryType, 1, getGridIndex(1, CellY(i)))
                ELSE IF CellY(i) \in LoopRange /\ CellX(i) = G - 1
                THEN Edge(topBottom, boundaryType, 1, getGridIndex(G - 2, CellY(i)))
                ELSE topBottom[i]]
        \* corners, one statement after the other
        c1 == Corner(leftRight, getGridIndex(0, 0),
                     getGridIndex(1, 0), getGridIndex(0, 1))
        c2 == Corner(c1, getGridIndex(0, G - 1),
                     getGridIndex(1, G - 1), getGridIndex(0, G - 2))
        c3 == Corner(c2, getGridIndex(G - 1, 0),
                     getGridIndex(G - 2, 0), getGridIndex(G - 1, 1))
        c4 == Corner(c3, getGridIndex(G - 1, G - 1),
                     getGridIndex(G - 2, G - 1), getGridIndex(G - 1, G - 2))
    IN  c4

\* ---------------------------------------------------------- linear solver
\* A fraction times an integer count of cells squared etc.: a/b as <<a, b>>.
Num(q) == q[1]
Den(q) == q[2]

\* The statement of the innermost loop: target[index] =
\*   (source[index] + factorA * (four neighbours of target)) * (1 / factorC)
Relax(target, source, x, y, factorA, factorC) ==
    LET index == getGridIndex(x, y)
        around == target[getGridIndex(x + 1, y)] + target[getGridIndex(x - 1, y)]
                  + target[getGridIndex(x, y + 1)] + target[getGridIndex(x, y - 1)]
    IN  Round((source[index] * Den(factorA) + Num(factorA) * around) * Den(factorC),
              Den(factorA) * Num(factorC))

\* One pass of the two inner loops: the cells are updated in place, in order.
RECURSIVE SweepCells(_, _, _, _, _)
SweepCells(target, source, cells, factorA, factorC) ==
    IF cells = << >> THEN target
    ELSE LET c == Head(cells)
         IN  SweepCells([target EXCEPT ![getGridIndex(c[1], c[2])] =
                             Relax(target, source, c[1], c[2], factorA, factorC)],
                        source, Tail(cells), factorA, factorC)

\* Fault variant: the boundary enforcer is called once, after the last sweep.
RECURSIVE SweepsOnly(_, _, _, _, _)
SweepsOnly(iterations, target, source, factorA, factorC) ==
    IF iterations = 0 THEN target
    ELSE SweepsOnly(iterations - 1,
                    SweepCells(target, source, InteriorCells, factorA, factorC),
                    source, factorA, factorC)

IterateBoundaryLast(iterations, boundaryType, target, source, factorA, factorC) ==
    setBoundaryConditions(boundaryType,
        SweepsOnly(iterations, target, source, factorA, factorC))

RECURSIVE Iterate(_, _, _, _, _, _)
Iterate(iterations, boundaryType, target, source, factorA, factorC) ==
    IF iterations = 0 THEN target
    ELSE Iterate(iterations - 1, boundaryType,
                 setBoundaryConditions(boundaryType,
                     SweepCells(target, source, InteriorCells, factorA, factorC)),
                 source, factorA, factorC)

\* solveLinearSystem on the buffers from the given initial content of target.
solveLinearSystem(boundaryType, target, source, factorA, factorC) ==
    Iterate(SOLVER_ITERATIONS, boundaryType, target, source, factorA, factorC)

\* --------------------------------------------------------------- diffusion
\* Fault variant: the rate is left out of the factor.
DiffusionFactorUnrated(f, diffusionRate) ==
    <<Num(f.timeStep) * (GRID_SIZE - 2) * (GRID_SIZE - 2), Den(f.timeStep)>>

\* diffusionFactor = timeStep * diffusionRate * (GRID_SIZE - 2) * (GRID_SIZE - 2)
DiffusionFactor(f, diffusionRate) ==
    <<Num(f.timeStep) * Num(diffusionRate) * (GRID_SIZE - 2) * (GRID_SIZE - 2),
      Den(f.timeStep) * Den(diffusionRate)>>

\* 1 + 6 * diffusionFactor
DiffusionDivisor(a) == <<Den(a) + 6 * Num(a), Den(a)>>

\* diffuseField(boundaryType, target, source, diffusionRate); target and source
\* name buffers of the object f, and the object with target rewritten is the result.
diffuseField(f, boundaryType, target, source, diffusionRate) ==
    LET a == DiffusionFactor(f, diffusionRate)
    IN  [f EXCEPT ![target] =
            solveLinearSystem(boundaryType, f[target], f[source], a, DiffusionDivisor(a))]

\* --------------------------------------------------------------- advection
\* Positions are fractions over PosDen cells; 0.5 is PosDen / 2 exactly.
PosDen(f) == 2 * Den(f.timeStep) * SCALE

\* Fault variant: the traced position is used without constrain.
TracedPositionUnclamped(f, coordinate, velocity) ==
    coordinate * PosDen(f) - 2 * Num(f.timeStep) * (GRID_SIZE - 2) * velocity

\* x - timeScaleX * velocityX[index], timeScaleX = timeStep * (GRID_SIZE - 2),
\* then constrain(.., 0.5, GRID_SIZE + 0.5)
TracedPosition(f, coordinate, velocity) ==
    LET d == PosDen(f)
        raw == coordinate * d - 2 * Num(f.timeStep) * (GRID_SIZE - 2) * velocity
    IN  constrain(raw, d \div 2, GRID_SIZE * d + d \div 2)

\* Fault variant: weightX0 is left at 1.0 instead of 1.0 - weightX1.
SamplesUnnormalised(f, x, y, velocityX, velocityY) ==
    LET d == PosDen(f)
        index == getGridIndex(x, y)
        sourceX == TracedPosition(f, x, velocityX[index])
        sourceY == TracedPosition(f, y, velocityY[index])
        x0 == sourceX \div d
        y0 == sourceY \div d
    IN  [x0 |-> x0, x1 |-> x0 + 1, y0 |-> y0, y1 |-> y0 + 1,
         weightX1 |-> sourceX - x0 * d, weightX0 |-> d,
         weightY1 |-> sourceY - y0 * d, weightY0 |-> d - (sourceY - y0 * d)]

\* The four cells sampled for the cell (x, y), and their weights (over PosDen).
Samples(f, x, y, velocityX, velocityY) ==
    LET d == PosDen(f)
        index == getGridIndex(x, y)
        sourceX == TracedPosition(f, x, velocityX[index])
        sourceY == TracedPosition(f, y, velocityY[index])
        x0 == sourceX \div d
        y0 == sourceY \div d
    IN  [x0 |-> x0, x1 |-> x0 + 1, y0 |-> y0, y1 |-> y0 + 1,
         weightX1 |-> sourceX - x0 * d, weightX0 |-> d - (sourceX - x0 * d),
         weightY1 |-> sourceY - y0 * d, weightY0 |-> d - (sourceY - y0 * d)]

\* weightX0 * (weightY0 * source[x0, y0] + weightY1 * source[x0, y1])
\*   + weightX1 * (weightY0 * source[x1, y0] + weightY1 * source[x1, y1]);
\* each inner sum is split into its multiple of PosDen and the rest.
Interpolate(f, source, s) ==
    LET d == PosDen(f)
        atX0 == s.weightY0 * source[getGridIndex(s.x0, s.y0)]
                + s.weightY1 * source[getGridIndex(s.x0, s.y1)]
        atX1 == s.weightY0 * source[getGridIndex(s.x1, s.y0)]
                + s.weightY1 * source[getGridIndex(s.x1, s.y1)]
    IN  RoundScaled(s.weightX0 * (atX0 \div d) + s.weightX1 * (atX1 \div d),
                    s.weightX0 * (atX0 % d) + s.weightX1 * (atX1 % d),
                    d)

\* advectField(boundaryType, target, source, velocityX, velocityY) on buffer names.
advectField(f, boundaryType, target, source, velocityX, velocityY) ==
    LET traced ==
            [i \in DOMAIN f[target] |->
                IF IsInterior(i)
                THEN Interpolate(f, f[source],
                         Samples(f, CellX(i), CellY(i), f[velocityX], f[velocityY]))
                ELSE f[target][i]]
    IN  [f EXCEPT ![target] = setBoundaryConditions(boundaryType, traced)]

\* -------------------------------------------------------------- projection
\* -0.5 * (vx[x+1] - vx[x-1] + vy[y+1] - vy[y-1]) / GRID_SIZE
Divergence(velocityX, velocityY, x, y) ==
    Round(-(velocityX[getGridIndex(x + 1, y)] - velocityX[getGridIndex(x - 1, y)]
            + velocityY[getGridIndex(x, y + 1)] - velocityY[getGridIndex(x, y - 1)]),
          2 * GRID_SIZE)

\* v -= 0.5 * (p[ahead] - p[behind]) * GRID_SIZE
SubtractGradient(v, pressure, ahead, behind) ==
    Round(2 * v - (pressure[ahead] - pressure[behind]) * GRID_SIZE, 2)

\* The 1 and 6 passed to solveLinearSystem by enforceIncompressibility.
PressureFactorA == <<1, 1>>
PressureFactorC == <<6, 1>>

enforceIncompressibility(f, velocityX, velocityY, pressure, divergence) ==
    LET div0 == [i \in DOMAIN f[divergence] |->
                    IF IsInterior(i)
                    THEN Divergence(f[velocityX], f[velocityY], CellX(i), CellY(i))
                    ELSE f[divergence][i]]
        p0 == [i \in DOMAIN f[pressure] |->
                    IF IsInterior(i) THEN 0 ELSE f[pressure][i]]
        div == setBoundaryConditions(0, div0)
        p == solveLinearSystem(0, setBoundaryConditions(0, p0), div,
                               PressureFactorA, PressureFactorC)
        vx == [i \in DOMAIN f[velocityX] |->
                    IF IsInterior(i)
                    THEN SubtractGradient(f[velocityX][i], p,
                             getGridIndex(CellX(i) + 1, CellY(i)),
                             getGridIndex(CellX(i) - 1, CellY(i)))
                    ELSE f[velocityX][i]]
        vy == [i \in DOMAIN f[velocityY] |->
                    IF IsInterior(i)
                    THEN SubtractGradient(f[velocityY][i], p,
                             getGridIndex(CellX(i), CellY(i) + 1),
                             getGridIndex(CellX(i), CellY(i) - 1))
                    ELSE f[velocityY][i]]
    IN  [f EXCEPT ![divergence] = div,
                  ![pressure] = p,
                  ![velocityX] = setBoundaryConditions(1, vx),
                  ![velocityY] = setBoundaryConditions(2, vy)]

\* ------------------------------------------------------------ force, decay
applyBuoyancyForce(f) ==
    [f EXCEPT !.verticalVelocity =
        [i \in DOMAIN f.verticalVelocity |->
            LET heatAmount == f.temperature[i]
            IN  IF heatAmount > 0
                THEN Round(f.verticalVelocity[i] * Den(f.buoyancy)
                           - heatAmount * Num(f.buoyancy), Den(f.buoyancy))
                ELSE f.verticalVelocity[i]]]

\* Fault variant: the factor is not applied.
Unscaled(v, factor) == v

\* v *= factor
Scaled(v, factor) == Round(v * Num(factor), Den(factor))

\* Fault variant: a linear fade, density[i] -= 0.005, in place of the factor.
applyDecayLinear(f) ==
    [f EXCEPT
        !.horizontalVelocity = [i \in DOMAIN @ |-> Scaled(@[i], VELOCITY_DECAY)],
        !.verticalVelocity = [i \in DOMAIN @ |-> Scaled(@[i], VELOCITY_DECAY)],
        !.density = [i \in DOMAIN @ |-> @[i] - Round(5 * SCALE, 1000)],
        !.temperature = [i \in DOMAIN @ |->
            IF Num(f.buoyancy) > 0 THEN Scaled(@[i], f.coolingRate) ELSE 0]]

\* Fault variant: the temperature is cooled whatever the buoyancy, never zeroed.
applyDecayAlwaysCools(f) ==
    [f EXCEPT
        !.horizontalVelocity = [i \in DOMAIN @ |-> Scaled(@[i], VELOCITY_DECAY)],
        !.verticalVelocity = [i \in DOMAIN @ |-> Scaled(@[i], VELOCITY_DECAY)],
        !.density = [i \in DOMAIN @ |-> Scaled(@[i], DENSITY_DECAY)],
        !.temperature = [i \in DOMAIN @ |-> Scaled(@[i], f.coolingRate)]]

\* Fault variant: the decay loop runs over the swept cells only.
applyDecayInterior(f) ==
    [f EXCEPT
        !.horizontalVelocity = [i \in DOMAIN @ |->
            IF IsInterior(i) THEN Scaled(@[i], VELOCITY_DECAY) ELSE @[i]],
        !.verticalVelocity = [i \in DOMAIN @ |->
            IF IsInterior(i) THEN Scaled(@[i], VELOCITY_DECAY) ELSE @[i]],
        !.density = [i \in DOMAIN @ |->
            IF IsInterior(i) THEN Scaled(@[i], DENSITY_DECAY) ELSE @[i]],
        !.temperature = [i \in DOMAIN @ |->
            IF ~IsInterior(i) THEN @[i]
            ELSE IF Num(f.buoyancy) > 0 THEN Scaled(@[i], f.coolingRate) ELSE 0]]

applyDecay(f) ==
    [f EXCEPT
        !.horizontalVelocity = [i \in DOMAIN @ |-> Scaled(@[i], VELOCITY_DECAY)],
        !.verticalVelocity = [i \in DOMAIN @ |-> Scaled(@[i], VELOCITY_DECAY)],
        !.density = [i \in DOMAIN @ |-> Scaled(@[i], DENSITY_DECAY)],
        !.temperature = [i \in DOMAIN @ |->
            IF Num(f.buoyancy) > 0 THEN Scaled(@[i], f.coolingRate) ELSE 0]]

\* ------------------------------------------------------------------- step
\* Fault variant: the density solve moved before the second projection.
StepOrderDensityEarly ==
    <<"TemperatureDiffuse", "TemperatureAdvect", "Buoyancy", "VelocityDiffuse",
      "ProjectFirst", "VelocityAdvect", "DensityDiffuse", "DensityAdvect",
      "ProjectSecond", "Decay">>

\* The statements of step(), in the order the method runs them.
StepOrder ==
    <<"TemperatureDiffuse", "TemperatureAdvect", "Buoyancy", "VelocityDiffuse",
      "ProjectFirst", "VelocityAdvect", "ProjectSecond",
      "DensityDiffuse", "DensityAdvect", "Decay">>

\* ----------------------------------------------------------------- inputs
\* The (diffusionRate, viscosity) pairs given to the constructor.
Rates == {<<0, 1>>, <<1, 4>>}
ConstructorArguments == {<<r, r>> : r \in Rates}

\* Coordinates given to the injection calls: below, inside and above [0, GRID_SIZE + 1].
Coords == (-1) .. (GRID_SIZE + 2)
AllCells == Coords \X Coords

\* The cells the frames are driven from: two neighbouring cells the loops
\* sweep, a cell of each wall the boundary loops write, and a cell beyond the
\* far wall.
BrushCells == {<<1, 1>>, <<1, GRID_SIZE - 2>>, <<0, 1>>,
               <<GRID_SIZE - 1, GRID_SIZE - 2>>, <<GRID_SIZE, 1>>}

DensityAmounts == {100 * SCALE, -(100 * SCALE)}
TemperatureAmounts == {50 * SCALE, -(50 * SCALE)}
\* A fast stroke, and a slow shear stroke in either direction.
SlowStroke == SCALE \div 16
VelocityAmounts == {<<10 * SCALE, 0>>, <<SlowStroke, -SlowStroke>>,
                    <<-SlowStroke, SlowStroke>>}

\* The presets of the configuration layer, as the physical values a frame
\* derives from them: "fluid" (buoyancy 0.0, cooling 0.99, damping 0.99, fade
\* 0.995) and "fire" (buoyancy 0.15, cooling 0.96, damping 0.985, fade 0.99).
\* A frame assigns buoyancy and cooling to the solver and hands all of them to
\* step as its argument.
FluidPreset == [buoyancy |-> <<0, 1>>, cooling |-> <<99, 100>>,
                damping |-> <<99, 100>>, fade |-> <<995, 1000>>]
FirePreset == [buoyancy |-> <<3, 20>>, cooling |-> <<96, 100>>,
               damping |-> <<985, 1000>>, fade |-> <<99, 100>>]
Presets == {FluidPreset, FirePreset}

\* The resolutions a solver may be asked for, the malformed ones included.
Resolutions == {-1, 0, MaxGridSize}

\* ------------------------------------------------------------------- Init
Constructed(n) ==
    /\ GRID_SIZE = n
    /\ \E a \in ConstructorArguments : fluid = FluidConstructor(TIME_STEP, a[1], a[2])
    /\ pc = 0
    /\ config = FluidPreset
    /\ stageLog = << >>
    /\ lastCall = None
    /\ before = fluid
    /\ nInject = 0
    /\ nSteps = 0

Init == Constructed(MaxGridSize)

\* ---------------------------------------------------------------- actions
Call(op, x, y, a, b) ==
    [op |-> op, x |-> x, y |-> y, a |-> a, b |-> b, index |-> getGridIndex(x, y)]

Injected(f, call) ==
    /\ fluid' = f
    /\ lastCall' = call
    /\ nInject' = nInject + 1
    /\ UNCHANGED <<GRID_SIZE, pc, config, stageLog, before, nSteps>>

addDensity(f, x, y, amount) ==
    LET index == getGridIndex(x, y)
    IN  [f EXCEPT !.density[index] = @ + amount]

\* Fault variant: the heat is added to the density buffer.
addTemperatureToDensity(f, x, y, amount) ==
    LET index == getGridIndex(x, y)
    IN  [f EXCEPT !.density[index] = @ + amount]

addTemperature(f, x, y, amount) ==
    LET index == getGridIndex(x, y)
    IN  [f EXCEPT !.temperature[index] = @ + amount]

addVelocity(f, x, y, horizontalAmount, verticalAmount) ==
    LET index == getGridIndex(x, y)
    IN  [f EXCEPT !.horizontalVelocity[index] = @ + horizontalAmount,
                  !.verticalVelocity[index] = @ + verticalAmount]

CanInject == pc = 0 /\ nInject < MaxInject /\ nInject + nSteps < MaxCalls

AddDensityAt(cells, amounts) ==
    /\ CanInject
    /\ \E c \in cells, amount \in amounts :
          Injected(addDensity(fluid, c[1], c[2], amount),
                   Call("addDensity", c[1], c[2], amount, 0))

AddTemperatureAt(cells, amounts) ==
    /\ CanInject
    /\ \E c \in cells, amount \in amounts :
          Injected(addTemperature(fluid, c[1], c[2], amount),
                   Call("addTemperature", c[1], c[2], amount, 0))

AddVelocityAt(cells, amounts) ==
    /\ CanInject
    /\ \E c \in cells, d \in amounts :
          Injected(addVelocity(fluid, c[1], c[2], d[1], d[2]),
                   Call("addVelocity", c[1], c[2], d[1], d[2]))

\* The brush of the frames.
AddDensity == AddDensityAt(BrushCells, {100 * SCALE})
AddTemperature == AddTemperatureAt(BrushCells, TemperatureAmounts)
AddVelocity == AddVelocityAt(BrushCells, VelocityAmounts)

\* The injection calls on their own, over every coordinate and amount.
ApiAddDensity == AddDensityAt(AllCells, DensityAmounts)
ApiAddTemperature == AddTemperatureAt(AllCells, TemperatureAmounts)
ApiAddVelocity == AddVelocityAt(AllCells, VelocityAmounts)

\* The configuration layer assigns the solver's buoyancy and cooling rate.
SetParameters ==
    /\ pc = 0
    /\ \E p \in Presets :
          /\ p # config
          /\ config' = p
          /\ fluid' = [fluid EXCEPT !.buoyancy = p.buoyancy, !.coolingRate = p.cooling]
    /\ lastCall' = Op("setParameters")
    /\ UNCHANGED <<GRID_SIZE, pc, stageLog, before, nInject, nSteps>>

\* "Reset Fluid": the solver is constructed anew.
Reset ==
    /\ pc = 0
    /\ nInject + nSteps > 0
    /\ \E a \in ConstructorArguments : fluid' = FluidConstructor(TIME_STEP, a[1], a[2])
    /\ before' = fluid'
    /\ config' = FluidPreset
    /\ stageLog' = << >>
    /\ lastCall' = None
    /\ nInject' = 0
    /\ nSteps' = 0
    /\ UNCHANGED <<GRID_SIZE, pc>>

\* The next statement of step() is `name`.
AtStage(name) ==
    /\ pc < Len(StepOrder)
    /\ StepOrder[pc + 1] = name
    /\ pc = 0 => (nSteps < MaxSteps /\ nInject + nSteps < MaxCalls)

\* The statement has run and left the object f.
Ran(name, f) ==
    /\ fluid' = f
    /\ pc' = IF pc + 1 = Len(StepOrder) THEN 0 ELSE pc + 1
    /\ stageLog' = IF pc = 0 THEN <<name>> ELSE Append(stageLog, name)
    /\ before' = IF pc = 0 THEN fluid ELSE before
    /\ nSteps' = IF pc = 0 THEN nSteps + 1 ELSE nSteps
    /\ lastCall' = Op("step")
    /\ UNCHANGED <<GRID_SIZE, config, nInject>>

TemperatureDiffuse ==
    /\ AtStage("TemperatureDiffuse")
    /\ Ran("TemperatureDiffuse",
           diffuseField(fluid, 0, "previousTemperature", "temperature", fluid.diffusion))

TemperatureAdvect ==
    /\ AtStage("TemperatureAdvect")
    /\ Ran("TemperatureAdvect",
           advectField(fluid, 0, "temperature", "previousTemperature",
                       "horizontalVelocity", "verticalVelocity"))

Buoyancy ==
    /\ AtStage("Buoyancy")
    /\ Ran("Buoyancy",
           IF Num(fluid.buoyancy) > 0 THEN applyBuoyancyForce(fluid) ELSE fluid)

VelocityDiffuse ==
    /\ AtStage("VelocityDiffuse")
    /\ Ran("VelocityDiffuse",
           diffuseField(
               diffuseField(fluid, 1, "previousHorizontalVelocity", "horizontalVelocity",
                            fluid.viscosity),
               2, "previousVerticalVelocity", "verticalVelocity", fluid.viscosity))

ProjectFirst ==
    /\ AtStage("ProjectFirst")
    /\ Ran("ProjectFirst",
           enforceIncompressibility(fluid,
               "previousHorizontalVelocity", "previousVerticalVelocity",
               "horizontalVelocity", "verticalVelocity"))

\* Fault variant: the velocity is advected along the field step() started with,
\* not along the projected one.
VelocityAdvectAlongUnprojected ==
    /\ AtStage("VelocityAdvect")
    /\ Ran("VelocityAdvect",
           LET h == advectField(fluid, 1, "horizontalVelocity",
                                "previousHorizontalVelocity",
                                "horizontalVelocity", "verticalVelocity")
               v == advectField(fluid, 2, "verticalVelocity",
                                "previousVerticalVelocity",
                                "horizontalVelocity", "verticalVelocity")
           IN  [fluid EXCEPT !.horizontalVelocity = h.horizontalVelocity,
                             !.verticalVelocity = v.verticalVelocity])

VelocityAdvect ==
    /\ AtStage("VelocityAdvect")
    /\ Ran("VelocityAdvect",
           advectField(
               advectField(fluid, 1, "horizontalVelocity", "previousHorizontalVelocity",
                           "previousHorizontalVelocity", "previousVerticalVelocity"),
               2, "verticalVelocity", "previousVerticalVelocity",
               "previousHorizontalVelocity", "previousVerticalVelocity"))

ProjectSecond ==
    /\ AtStage("ProjectSecond")
    /\ Ran("ProjectSecond",
           enforceIncompressibility(fluid,
               "horizontalVelocity", "verticalVelocity",
               "previousHorizontalVelocity", "previousVerticalVelocity"))

DensityDiffuse ==
    /\ AtStage("DensityDiffuse")
    /\ Ran("DensityDiffuse",
           diffuseField(fluid, 0, "previousDensity", "density", fluid.diffusion))

DensityAdvect ==
    /\ AtStage("DensityAdvect")
    /\ Ran("DensityAdvect",
           advectField(fluid, 0, "density", "previousDensity",
                       "horizontalVelocity", "verticalVelocity"))

Decay ==
    /\ AtStage("Decay")
    /\ Ran("Decay", applyDecay(fluid))

Next ==
    \/ AddDensity
    \/ AddTemperature
    \/ AddVelocity
    \/ SetParameters
    \/ Reset
    \/ TemperatureDiffuse
    \/ TemperatureAdvect
    \/ Buoyancy
    \/ VelocityDiffuse
    \/ ProjectFirst
    \/ VelocityAdvect
    \/ ProjectSecond
    \/ DensityDiffuse
    \/ DensityAdvect
    \/ Decay

Spec == Init /\ [][Next]_vars

\* The injection API alone, every coordinate and amount.
NextApi ==
    \/ ApiAddDensity
    \/ ApiAddTemperature
    \/ ApiAddVelocity

SpecApi == Init /\ [][NextApi]_vars

\* The solver constructed for any requested resolution.
InitCtor == \E n \in Resolutions : Constructed(n)

SpecCtor == InitCtor /\ [][Next]_vars

\* =================================================================== claims
\* Helpers of the claims' statements.
At(field, x, y) == field[x + (GRID_SIZE + 2) * y]

RECURSIVE MaxAbsOver(_, _)
MaxAbsOver(field, cells) ==
    IF cells = {} THEN 0
    ELSE LET i == CHOOSE j \in cells : TRUE
         IN  Max(Abs(field[i]), MaxAbsOver(field, cells \ {i}))

MaxAbs(field) == MaxAbsOver(field, DOMAIN field)

AllZero(f) == \A b \in Buffers : \A i \in DOMAIN f[b] : f[b][i] = 0

\* A step has just returned, and nothing was called since.
StepReturned == pc = 0 /\ lastCall.op = "step"

\* The in-range coordinate nearest to n.
Nearest(n) ==
    CHOOSE c \in 0 .. (GRID_SIZE + 1) :
        \A d \in 0 .. (GRID_SIZE + 1) : Abs(n - c) <= Abs(n - d)

ScalarStages == {"TemperatureDiffuse", "TemperatureAdvect", "DensityDiffuse", "DensityAdvect"}
ProjectionStages == {"ProjectFirst", "ProjectSecond"}
ProjectionsBefore(i) ==
    Cardinality({j \in 1 .. (i - 1) : stageLog[j] \in ProjectionStages})

C2_ZeroStaysZero ==
    (nInject = 0 /\ Num(fluid.buoyancy) = 0) => AllZero(fluid)

C2_Witness ==
    /\ StepReturned
    /\ nSteps >= 2
    /\ nInject = 0
    /\ Num(fluid.buoyancy) = 0

\* C3 (as stated): the decay stage multiplies every velocity component by the
\* damping factor and every density cell by the fade factor of the argument
\* step was given.
IsDecay == pc < Len(StepOrder) /\ StepOrder[pc + 1] = "Decay" /\ pc' # pc

C3_DecayUsesConfig ==
    [][IsDecay =>
        /\ fluid'.horizontalVelocity =
              [i \in DOMAIN fluid.horizontalVelocity |->
                  Scaled(fluid.horizontalVelocity[i], config.damping)]
        /\ fluid'.verticalVelocity =
              [i \in DOMAIN fluid.verticalVelocity |->
                  Scaled(fluid.verticalVelocity[i], config.damping)]
        /\ fluid'.density =
              [i \in DOMAIN fluid.density |-> Scaled(fluid.density[i], config.fade)]]_vars

\* C4: an injection call, for any coordinates and amount, writes inside the
\* buffer, adds exactly the amount(s) at the offset of the clamped coordinates
\* of its own buffer(s), and leaves every other cell, buffer and parameter as
\* it was.
C4_InjectionFrame ==
    [][lastCall'.op \in InjectionOps =>
        LET c == lastCall'
            i == Nearest(c.x) + (GRID_SIZE + 2) * Nearest(c.y)
        IN  /\ i \in DOMAIN fluid.density
            /\ c.op = "addDensity" =>
                  fluid' = [fluid EXCEPT !.density[i] = @ + c.a]
            /\ c.op = "addTemperature" =>
                  fluid' = [fluid EXCEPT !.temperature[i] = @ + c.a]
            /\ c.op = "addVelocity" =>
                  fluid' = [fluid EXCEPT !.horizontalVelocity[i] = @ + c.a,
                                         !.verticalVelocity[i] = @ + c.b]]_vars

C4_Witness ==
    /\ nInject = 2
    /\ lastCall.op = "addVelocity"
    /\ lastCall.x = -1
    /\ lastCall.y = GRID_SIZE + 2
    /\ lastCall.a < 0
    /\ \E i \in DOMAIN fluid.temperature : fluid.temperature[i] # 0

\* C5: the offset of (x, y) is cx + (N + 2) * cy with cx, cy the in-range
\* coordinates nearest to x and y, and distinct in-range cells have distinct
\* offsets.
C5_IndexClamps ==
    /\ lastCall.op \in InjectionOps =>
          lastCall.index = Nearest(lastCall.x) + (GRID_SIZE + 2) * Nearest(lastCall.y)
    /\ Cardinality({getGridIndex(x, y) : x \in 0 .. (GRID_SIZE + 1), y \in 0 .. (GRID_SIZE + 1)})
          = (GRID_SIZE + 2) * (GRID_SIZE + 2)

C5_Witness ==
    /\ lastCall.op = "addDensity"
    /\ lastCall.x = GRID_SIZE + 2
    /\ lastCall.y = -1
    /\ lastCall.index = GRID_SIZE + 1

\* C6 (as stated): a solver requested with a zero or negative resolution is
\* never produced: it has no buffers, and no call ever runs on it.
C6_ConstructionFailsFast ==
    GRID_SIZE <= 0 =>
        /\ \A b \in Buffers : DOMAIN fluid[b] = {}
        /\ nInject = 0
        /\ nSteps = 0

\* C7: a fresh solver, one addDensity of a positive amount A at a cell with
\* both coordinates in 1..N, then one step with buoyancy 0 and nothing else:
\* the density of that cell is below A and no density cell is negative.
FreshWithDensityAt(f, i) ==
    /\ f.density[i] > 0
    /\ f = [FluidConstructor(f.timeStep, f.diffusion, f.viscosity)
                EXCEPT !.density[i] = f.density[i]]

MaxVelocity(f) == Max(MaxAbs(f.horizontalVelocity), MaxAbs(f.verticalVelocity))

DivTolerance == SCALE \div 1000

C9_DivergenceFree ==
    (pc > 0 /\ stageLog[pc] = "ProjectFirst") =>
        \A x \in LoopRange, y \in LoopRange :
            Abs(Divergence(fluid.previousHorizontalVelocity,
                           fluid.previousVerticalVelocity, x, y)) <= DivTolerance

\* C10 (as stated): after the boundary enforcer ran for the horizontal velocity
\* (the last statement of a projection), every row y has f[0, y] = -f[1, y] and
\* f[N + 1, y] = -f[N, y], N the resolution of the indexer; after it ran for a
\* scalar (the last statement of the density advection), f[0, y] = f[1, y].
C10_WallRelations ==
    /\ (pc > 0 /\ stageLog[pc] = "ProjectSecond") =>
          \A y \in LoopRange :
              /\ At(fluid.horizontalVelocity, 0, y) = -At(fluid.horizontalVelocity, 1, y)
              /\ At(fluid.horizontalVelocity, GRID_SIZE + 1, y)
                    = -At(fluid.horizontalVelocity, GRID_SIZE, y)
    /\ (pc > 0 /\ stageLog[pc] = "DensityAdvect") =>
          \A y \in LoopRange :
              At(fluid.density, 0, y) = At(fluid.density, 1, y)

\* The stage that has just run inside the current step.
JustRan(name) == pc > 0 /\ stageLog[pc] = name

\* target holds source at every cell the sweeps visit, and is as the boundary
\* enforcer of the given kind leaves it.
CopiedWithBoundary(boundaryType, target, source) ==
    /\ \A i \in DOMAIN target : IsInterior(i) => target[i] = source[i]
    /\ target = setBoundaryConditions(boundaryType, target)

\* C11: a diffusion with rate 0 leaves in every swept cell of the target the
\* source value of that cell, whatever the target held before, and the target
\* is as boundary enforcement leaves it (temperature, both velocity components
\* and density).
C11_ZeroRateCopies ==
    /\ (JustRan("TemperatureDiffuse") /\ Num(fluid.diffusion) = 0) =>
          CopiedWithBoundary(0, fluid.previousTemperature, fluid.temperature)
    /\ (JustRan("VelocityDiffuse") /\ Num(fluid.viscosity) = 0) =>
          /\ CopiedWithBoundary(1, fluid.previousHorizontalVelocity,
                                fluid.horizontalVelocity)
          /\ CopiedWithBoundary(2, fluid.previousVerticalVelocity,
                                fluid.verticalVelocity)
    /\ (JustRan("DensityDiffuse") /\ Num(fluid.diffusion) = 0) =>
          CopiedWithBoundary(0, fluid.previousDensity, fluid.density)

C11_Witness ==
    /\ JustRan("DensityDiffuse")
    /\ Num(fluid.diffusion) = 0
    /\ \E i \in DOMAIN fluid.density :
          /\ IsInterior(i)
          /\ fluid.density[i] # 0
          /\ before.previousDensity[i] # fluid.density[i]
          /\ before.previousDensity[i] # 0

\* C12: the decay stage of a step run with a buoyancy that is not positive
\* leaves the temperature zero in every cell of the buffer, whatever was
\* injected before; with a positive buoyancy it multiplies every temperature
\* cell by the cooling rate.
C12_TemperatureDecay ==
    [][IsDecay =>
        IF Num(fluid.buoyancy) > 0
        THEN fluid'.temperature =
                [i \in DOMAIN fluid.temperature |->
                    Scaled(fluid.temperature[i], fluid.coolingRate)]
        ELSE \A i \in DOMAIN fluid.temperature : fluid'.temperature[i] = 0]_vars

C12_Witness ==
    /\ StepReturned
    /\ Num(fluid.buoyancy) > 0
    /\ \E i \in DOMAIN fluid.temperature :
          /\ fluid.temperature[i] # 0
          /\ Abs(fluid.temperature[i]) < Abs(before.temperature[i])

\* This step of the run is the stage `name`.
Runs(name) ==
    /\ stageLog' # stageLog
    /\ Len(stageLog') > 0
    /\ stageLog'[Len(stageLog')] = name

\* C13: a step projects the velocity exactly twice: the diffused velocity right
\* after the velocity diffusion, and the advected velocity right after the
\* velocity advection; the advection in between carries both components along
\* the field the first projection left.
C13_ProjectedTwice ==
    [][/\ Runs("ProjectFirst") =>
             /\ JustRan("VelocityDiffuse")
             /\ fluid' = enforceIncompressibility(fluid,
                              "previousHorizontalVelocity", "previousVerticalVelocity",
                              "horizontalVelocity", "verticalVelocity")
       /\ Runs("VelocityAdvect") =>
             /\ JustRan("ProjectFirst")
             /\ fluid' =
                   [fluid EXCEPT
                       !.horizontalVelocity =
                           advectField(fluid, 1, "horizontalVelocity",
                                       "previousHorizontalVelocity",
                                       "previousHorizontalVelocity",
                                       "previousVerticalVelocity").horizontalVelocity,
                       !.verticalVelocity =
                           advectField(fluid, 2, "verticalVelocity",
                                       "previousVerticalVelocity",
                                       "previousHorizontalVelocity",
                                       "previousVerticalVelocity").verticalVelocity]
       /\ Runs("ProjectSecond") =>
             /\ JustRan("VelocityAdvect")
             /\ fluid' = enforceIncompressibility(fluid,
                              "horizontalVelocity", "verticalVelocity",
                              "previousHorizontalVelocity", "previousVerticalVelocity")
       /\ Runs("Decay") =>
             Cardinality({j \in 1 .. Len(stageLog') :
                             stageLog'[j] \in ProjectionStages}) = 2
      ]_vars

C13_Witness ==
    /\ JustRan("VelocityAdvect")
    /\ \E i \in DOMAIN fluid.horizontalVelocity :
          /\ IsInterior(i)
          /\ fluid.previousHorizontalVelocity[i] # 0
          /\ fluid.horizontalVelocity[i] # fluid.previousHorizontalVelocity[i]
          /\ fluid.horizontalVelocity[i] # 0

\* n relaxation sweeps from the given content of target, the boundary enforcer
\* run on target after each of them.
RECURSIVE SweepsWithBoundary(_, _, _, _, _, _)
SweepsWithBoundary(n, boundaryType, target, source, factorA, factorC) ==
    IF n = 0 THEN target
    ELSE SweepsWithBoundary(n - 1, boundaryType,
             setBoundaryConditions(boundaryType,
                 SweepCells(target, source, InteriorCells, factorA, factorC)),
             source, factorA, factorC)

\* The buffer a diffusion leaves: SOLVER_ITERATIONS sweeps, each followed by
\* the boundary enforcer.
Relaxed(boundaryType, target, source, rate) ==
    LET a == DiffusionFactor(fluid, rate)
    IN  SweepsWithBoundary(SOLVER_ITERATIONS, boundaryType, target, source,
                           a, DiffusionDivisor(a))

\* The pressure a projection leaves, from the buffer it starts with and the
\* divergence it stored.
Solved(pressure, divergence) ==
    SweepsWithBoundary(SOLVER_ITERATIONS, 0,
        setBoundaryConditions(0,
            [i \in DOMAIN pressure |-> IF IsInterior(i) THEN 0 ELSE pressure[i]]),
        divergence, PressureFactorA, PressureFactorC)

\* C14: the boundary enforcer runs on the written buffer after every single
\* relaxation sweep of the diffusions and of the pressure solves, and after
\* every advection pass.
C14_BoundaryAfterEverySweep ==
    [][/\ Runs("TemperatureDiffuse") =>
             fluid'.previousTemperature =
                 Relaxed(0, fluid.previousTemperature, fluid.temperature, fluid.diffusion)
       /\ Runs("VelocityDiffuse") =>
             /\ fluid'.previousHorizontalVelocity =
                    Relaxed(1, fluid.previousHorizontalVelocity,
                            fluid.horizontalVelocity, fluid.viscosity)
             /\ fluid'.previousVerticalVelocity =
                    Relaxed(2, fluid.previousVerticalVelocity,
                            fluid.verticalVelocity, fluid.viscosity)
       /\ Runs("DensityDiffuse") =>
             fluid'.previousDensity =
                 Relaxed(0, fluid.previousDensity, fluid.density, fluid.diffusion)
       /\ Runs("ProjectFirst") =>
             fluid'.horizontalVelocity =
                 Solved(fluid.horizontalVelocity, fluid'.verticalVelocity)
       /\ Runs("ProjectSecond") =>
             fluid'.previousHorizontalVelocity =
                 Solved(fluid.previousHorizontalVelocity, fluid'.previousVerticalVelocity)
       /\ Runs("TemperatureAdvect") =>
             fluid'.temperature = setBoundaryConditions(0, fluid'.temperature)
       /\ Runs("VelocityAdvect") =>
             /\ fluid'.horizontalVelocity =
                    setBoundaryConditions(1, fluid'.horizontalVelocity)
             /\ fluid'.verticalVelocity =
                    setBoundaryConditions(2, fluid'.verticalVelocity)
       /\ Runs("DensityAdvect") =>
             fluid'.density = setBoundaryConditions(0, fluid'.density)
      ]_vars

C14_Witness ==
    /\ JustRan("DensityDiffuse")
    /\ Num(fluid.diffusion) > 0
    /\ At(fluid.previousDensity, 0, 1) # 0
    /\ At(fluid.previousDensity, 0, 1) = At(fluid.previousDensity, 1, 1)
    /\ At(fluid.previousDensity, 0, 1) # At(fluid.density, 1, 1)

\* The divisor of the two-dimensional implicit diffusion, 1 + 4a.
PlanarDivisor(a) == <<Den(a) + 4 * Num(a), Den(a)>>

\* C15: each relaxation sweep of a diffusion sets every interior target cell
\* to (source + a * (sum of its 4 neighbours in target)) / (1 + 4a), so that a
\* constant field is a fixed point of diffusion.
C15_DiffuseDividesByOnePlusFourA ==
    [][/\ Runs("TemperatureDiffuse") =>
             LET a == DiffusionFactor(fluid, fluid.diffusion)
             IN  fluid'.previousTemperature =
                     SweepsWithBoundary(SOLVER_ITERATIONS, 0, fluid.previousTemperature,
                                        fluid.temperature, a, PlanarDivisor(a))
       /\ Runs("DensityDiffuse") =>
             LET a == DiffusionFactor(fluid, fluid.diffusion)
             IN  fluid'.previousDensity =
                     SweepsWithBoundary(SOLVER_ITERATIONS, 0, fluid.previousDensity,
                                        fluid.density, a, PlanarDivisor(a))
      ]_vars

\* The pressure of the two-dimensional Poisson relaxation: each sweep divides
\* the divergence plus the 4 neighbouring pressures by 4.
SolvedByFour(pressure, divergence) ==
    SweepsWithBoundary(SOLVER_ITERATIONS, 0,
        setBoundaryConditions(0,
            [i \in DOMAIN pressure |-> IF IsInterior(i) THEN 0 ELSE pressure[i]]),
        divergence, <<1, 1>>, <<4, 1>>)

\* C16: each relaxation sweep of the pressure solve of a projection sets every
\* interior pressure cell to (its divergence + the sum of its 4 neighbouring
\* pressures) / 4, starting from a pressure zeroed at every interior cell.
C16_PressureDividesByFour ==
    [][/\ Runs("ProjectFirst") =>
             fluid'.horizontalVelocity =
                 SolvedByFour(fluid.horizontalVelocity, fluid'.verticalVelocity)
       /\ Runs("ProjectSecond") =>
             fluid'.previousHorizontalVelocity =
                 SolvedByFour(fluid.previousHorizontalVelocity,
                              fluid'.previousVerticalVelocity)
      ]_vars

Smallest(field) == CHOOSE v \in {field[i] : i \in DOMAIN field} :
                       \A i \in DOMAIN field : v <= field[i]
Largest(field) == CHOOSE v \in {field[i] : i \in DOMAIN field} :
                      \A i \in DOMAIN field : field[i] <= v

\* The weights of a bilinear sample are each in [0, 1] and sum to 1 per axis.
ConvexWeights(s) ==
    /\ s.weightX0 \in 0 .. PosDen(fluid) /\ s.weightX1 \in 0 .. PosDen(fluid)
    /\ s.weightY0 \in 0 .. PosDen(fluid) /\ s.weightY1 \in 0 .. PosDen(fluid)
    /\ s.weightX0 + s.weightX1 = PosDen(fluid)
    /\ s.weightY0 + s.weightY1 = PosDen(fluid)

\* An advection of source along (velocityX, velocityY) wrote written: every
\* interior cell was sampled with convex weights and lies within the range of
\* the source buffer.
ConvexlyAdvected(written, source, velocityX, velocityY) ==
    \A i \in DOMAIN written : IsInterior(i) =>
        /\ ConvexWeights(Samples(fluid, CellX(i), CellY(i), velocityX, velocityY))
        /\ Smallest(source) <= written[i]
        /\ written[i] <= Largest(source)

\* C17: advect writes into every interior target cell a convex combination of
\* four source cells (weights in [0, 1] summing to 1), so the written value
\* lies between the minimum and the maximum of the source buffer.
C17_AdvectIsConvex ==
    [][/\ Runs("TemperatureAdvect") =>
             ConvexlyAdvected(fluid'.temperature, fluid.previousTemperature,
                              fluid.horizontalVelocity, fluid.verticalVelocity)
       /\ Runs("VelocityAdvect") =>
             /\ ConvexlyAdvected(fluid'.horizontalVelocity,
                                 fluid.previousHorizontalVelocity,
                                 fluid.previousHorizontalVelocity,
                                 fluid.previousVerticalVelocity)
             /\ ConvexlyAdvected(fluid'.verticalVelocity,
                                 fluid.previousVerticalVelocity,
                                 fluid.previousHorizontalVelocity,
                                 fluid.previousVerticalVelocity)
       /\ Runs("DensityAdvect") =>
             ConvexlyAdvected(fluid'.density, fluid.previousDensity,
                              fluid.horizontalVelocity, fluid.verticalVelocity)
      ]_vars

C17_Witness ==
    /\ JustRan("DensityAdvect")
    /\ \E i \in DOMAIN fluid.density :
          /\ IsInterior(i)
          /\ LET s == Samples(fluid, CellX(i), CellY(i),
                              fluid.horizontalVelocity, fluid.verticalVelocity)
             IN  s.weightX0 > 0 /\ s.weightX1 > 0 /\ s.weightY0 > 0 /\ s.weightY1 > 0
          /\ Smallest(fluid.previousDensity) < fluid.density[i]
          /\ fluid.density[i] < Largest(fluid.previousDensity)

\* f with the named buffer blanked.
Blanked(f, name) == [f EXCEPT ![name] = [i \in DOMAIN f[name] |-> 0]]

\* C18: the sweeps and the advection pass write every cell with both
\* coordinates in 1..N and the boundary enforcer writes the halo at 0 and N+1,
\* so no cell of the padded buffer is left out: what an advection leaves in its
\* target does not depend on what the target held.
C18_EveryCellWritten ==
    [][/\ Runs("TemperatureAdvect") =>
             fluid'.temperature =
                 advectField(Blanked(fluid, "temperature"), 0, "temperature",
                             "previousTemperature", "horizontalVelocity",
                             "verticalVelocity").temperature
       /\ Runs("DensityAdvect") =>
             fluid'.density =
                 advectField(Blanked(fluid, "density"), 0, "density",
                             "previousDensity", "horizontalVelocity",
                             "verticalVelocity").density
      ]_vars

\* C19: the buoyancy stage changes the vertical velocity of every cell by
\* exactly -(temperature of the cell * buoyancy coefficient), whatever the sign
\* of the temperature, and changes nothing else; with a coefficient of 0 it
\* changes no cell of any buffer.
C19_BuoyancyEveryCell ==
    [][Runs("Buoyancy") =>
          fluid' = [fluid EXCEPT !.verticalVelocity =
                      [i \in DOMAIN fluid.verticalVelocity |->
                          Round(fluid.verticalVelocity[i] * Den(fluid.buoyancy)
                                - fluid.temperature[i] * Num(fluid.buoyancy),
                                Den(fluid.buoyancy))]]
      ]_vars

\* The wall cells of field next to the swept cells: leftRight and topBottom are
\* the signs (1 or -1) they carry over from their neighbour among the swept
\* cells.
WallsCarry(field, leftRight, topBottom) ==
    /\ \A y \in LoopRange :
          /\ At(field, 0, y) = leftRight * At(field, 1, y)
          /\ At(field, GRID_SIZE - 1, y) = leftRight * At(field, GRID_SIZE - 2, y)
    /\ \A x \in LoopRange :
          /\ At(field, x, 0) = topBottom * At(field, x, 1)
          /\ At(field, x, GRID_SIZE - 1) = topBottom * At(field, x, GRID_SIZE - 2)

\* C20: the boundary enforcer negates the copied neighbour exactly when the
\* kind matches the wall's normal: kind 1 (horizontal velocity) negates left
\* and right and copies top and bottom, kind 2 (vertical velocity) negates top
\* and bottom and copies left and right, kind 0 (scalar) copies on all four
\* edges. Observed where the enforcer has just run on the buffer.
C20_NegatesAcrossWall ==
    /\ JustRan("VelocityAdvect") =>
          /\ WallsCarry(fluid.horizontalVelocity, -1, 1)
          /\ WallsCarry(fluid.verticalVelocity, 1, -1)
    /\ JustRan("VelocityDiffuse") =>
          /\ WallsCarry(fluid.previousHorizontalVelocity, -1, 1)
          /\ WallsCarry(fluid.previousVerticalVelocity, 1, -1)
    /\ JustRan("TemperatureAdvect") => WallsCarry(fluid.temperature, 1, 1)
    /\ JustRan("DensityAdvect") => WallsCarry(fluid.density, 1, 1)

C20_Witness ==
    /\ JustRan("VelocityAdvect")
    /\ At(fluid.horizontalVelocity, 0, 1) # 0
    /\ At(fluid.horizontalVelocity, 1, 0) # 0
    /\ At(fluid.verticalVelocity, 0, 1) # 0
    /\ At(fluid.verticalVelocity, 1, 0) # 0

\* A coordinate the clamp of getGridIndex leaves as it is.
InRange(coordinate) == coordinate \in 0 .. (GRID_SIZE + 1)

\* The four cells an advection along (velocityX, velocityY) samples for each
\* cell of its loops have coordinates in range.
SamplesInRange(velocityX, velocityY) ==
    \A x \in LoopRange, y \in LoopRange :
        LET s == Samples(fluid, x, y, velocityX, velocityY)
        IN  InRange(s.x0) /\ InRange(s.x1) /\ InRange(s.y0) /\ InRange(s.y1)

\* C21: during a step every coordinate given to getGridIndex is already in
\* [0, GRID_SIZE + 1]: the four sample cells of every advection, for the
\* velocities it is run with, and the neighbours x + 1, x - 1, y + 1, y - 1 of
\* every cell the sweeps visit.
C21_IndexArgumentsInRange ==
    [][/\ (Runs("TemperatureAdvect") \/ Runs("DensityAdvect")) =>
             SamplesInRange(fluid.horizontalVelocity, fluid.verticalVelocity)
       /\ Runs("VelocityAdvect") =>
             SamplesInRange(fluid.previousHorizontalVelocity,
                            fluid.previousVerticalVelocity)
       /\ stageLog' # stageLog =>
             \A c \in LoopRange : InRange(c) /\ InRange(c - 1) /\ InRange(c + 1)
      ]_vars

\* A density advection has run in which the traced position of a cell fell
\* left of 0.5 and was brought back to it.
C21_Witness ==
    /\ JustRan("DensityAdvect")
    /\ \E x \in LoopRange, y \in LoopRange :
          /\ 2 * Num(fluid.timeStep) * (GRID_SIZE - 2)
                * fluid.horizontalVelocity[getGridIndex(x, y)]
                > x * PosDen(fluid) - PosDen(fluid) \div 2
          /\ Samples(fluid, x, y, fluid.horizontalVelocity,
                     fluid.verticalVelocity).x0 = 0

\* step() as one function of the object: its statements in the order of the
\* method, each applied to what the one before left.
step(f) ==
    LET s1 == diffuseField(f, 0, "previousTemperature", "temperature", f.diffusion)
        s2 == advectField(s1, 0, "temperature", "previousTemperature",
                          "horizontalVelocity", "verticalVelocity")
        s3 == IF Num(s2.buoyancy) > 0 THEN applyBuoyancyForce(s2) ELSE s2
        s4 == diffuseField(
                  diffuseField(s3, 1, "previousHorizontalVelocity",
                               "horizontalVelocity", s3.viscosity),
                  2, "previousVerticalVelocity", "verticalVelocity", s3.viscosity)
        s5 == enforceIncompressibility(s4,
                  "previousHorizontalVelocity", "previousVerticalVelocity",
                  "horizontalVelocity", "verticalVelocity")
        s6 == advectField(
                  advectField(s5, 1, "horizontalVelocity", "previousHorizontalVelocity",
                              "previousHorizontalVelocity", "previousVerticalVelocity"),
                  2, "verticalVelocity", "previousVerticalVelocity",
                  "previousHorizontalVelocity", "previousVerticalVelocity")
        s7 == enforceIncompressibility(s6,
                  "horizontalVelocity", "verticalVelocity",
                  "previousHorizontalVelocity", "previousVerticalVelocity")
        s8 == diffuseField(s7, 0, "previousDensity", "density", s7.diffusion)
        s9 == advectField(s8, 0, "density", "previousDensity",
                          "horizontalVelocity", "verticalVelocity")
    IN  applyDecay(s9)

\* The object f with other contents in its four scratch buffers.
WithScratch(f, content) ==
    [f EXCEPT !.previousDensity = content,
              !.previousTemperature = content,
              !.previousHorizontalVelocity = content,
              !.previousVerticalVelocity = content]

Live(f) == <<f.density, f.temperature, f.horizontalVelocity, f.verticalVelocity>>

\* The staged run of step() is the method applied to the object it started from.
StepIsStaged == StepReturned => fluid = step(before)

\* C22: the live fields after a step depend only on the live fields and the
\* parameters before it: a solver that started the step with the same live
\* fields and parameters but blank scratch buffers ends it with the same
\* density, temperature and velocity.
C22_LiveIgnoresScratch ==
    StepReturned =>
        Live(fluid) = Live(step(WithScratch(before,
                               [i \in DOMAIN before.density |-> 0])))

\* A coordinate of the cells the sweeps or the boundary enforcer write.
Maintained(coordinate) == coordinate \in 0 .. (GRID_SIZE - 1)

SamplesMaintained(velocityX, velocityY) ==
    \A x \in LoopRange, y \in LoopRange :
        LET s == Samples(fluid, x, y, velocityX, velocityY)
        IN  /\ Maintained(s.x0) /\ Maintained(s.x1)
            /\ Maintained(s.y0) /\ Maintained(s.y1)

\* C23: each of the four cells an advection samples is a cell written by the
\* sweeps or by the boundary enforcer.
C23_SamplesOnlyMaintainedCells ==
    [][/\ (Runs("TemperatureAdvect") \/ Runs("DensityAdvect")) =>
             SamplesMaintained(fluid.horizontalVelocity, fluid.verticalVelocity)
       /\ Runs("VelocityAdvect") =>
             SamplesMaintained(fluid.previousHorizontalVelocity,
                               fluid.previousVerticalVelocity)
      ]_vars

\* C24: when step() returns, whatever was injected before it, the wall
\* relations hold on the live fields at every non-corner cell of the walls the
\* boundary enforcer writes (0 and GRID_SIZE - 1, neighbours 1 and
\* GRID_SIZE - 2): density and temperature equal their neighbour, the
\* horizontal velocity is negated at the left and right walls and copied at the
\* top and bottom ones, the vertical velocity the other way round; buoyancy and
\* decay, which run over all cells, do not break them.
C24_WallsAtEndOfStep ==
    StepReturned =>
        /\ WallsCarry(fluid.density, 1, 1)
        /\ WallsCarry(fluid.temperature, 1, 1)
        /\ WallsCarry(fluid.horizontalVelocity, -1, 1)
        /\ WallsCarry(fluid.verticalVelocity, 1, -1)

\* A step has returned that began with a wall cell of the density out of its
\* relation (an injection into the wall) and with buoyancy on, and left
\* non-zero values on the walls of the density and of the vertical velocity.
C24_Witness ==
    /\ StepReturned
    /\ Num(fluid.buoyancy) > 0
    /\ At(before.density, 0, 1) # At(before.density, 1, 1)
    /\ At(fluid.density, 0, 1) # 0
    /\ At(fluid.verticalVelocity, 1, 0) # 0
    /\ At(fluid.temperature, 0, 1) # 0

====
